---- MODULE Spec2Model ----
(***************************************************************************)
(* Model of Engine/Script/ScriptEngine.cpp: the owner of the AngelScript   *)
(* engine handle, of the immediate context and of the pool of per-nesting- *)
(* level contexts, the immediate execution of one statement, the garbage   *)
(* collection pass and the diagnostic sink.                                *)
(*                                                                         *)
(* Strings are sequences of one-character strings, so that concatenation,  *)
(* number formatting and line splitting are computed, not assumed.         *)
(* A context is identified by the ordinal of the CreateContext call that   *)
(* made it; 0 is the null pointer.                                         *)
(***************************************************************************)
EXTENDS Integers, Sequences, FiniteSets, TLC

VARIABLES
    lifecycle,              \* position of the object: Uninitialized, Ready, ShutDown, Failed (constructor threw), Crashed (null dereference)
    mAngelScriptEngine,     \* engine handle, 0 = null
    mImmediateContext,      \* context for immediate execution, 0 = null
    mScriptFileContexts,    \* std::vector of the per-level contexts
    mLogMode,               \* ScriptLogMode
    mLogMessages,           \* retained log buffer (a string)
    prepared,               \* engine side: function id each context is prepared with, 0 = unprepared
    released,               \* engine side: number of Release calls each context has received
    engineReleased,         \* engine side: number of Release calls on the engine handle
    highestScriptNestingLevel, \* the value getHighestScriptNestingLevel() returns
    createdContexts,        \* history: contexts the constructor obtained from CreateContext
    lastOp,                 \* history: the last operation, its inputs and its result
    calls                   \* history: the calls the last operation made, in order

vars == <<lifecycle, mAngelScriptEngine, mImmediateContext, mScriptFileContexts,
          mLogMode, mLogMessages, prepared, released, engineReleased,
          highestScriptNestingLevel, createdContexts, lastOp, calls>>

ctxVars == <<mAngelScriptEngine, mImmediateContext, mScriptFileContexts,
             prepared, released, engineReleased, highestScriptNestingLevel,
             createdContexts>>

logVars == <<mLogMode, mLogMessages>>

----------------------------------------------------------------------------
(* Bounds *)

\* number of pooled per-level contexts (set in ScriptEngine.h)
MAX_SCRIPT_NESTING_LEVEL == 2

\* lines the retained buffer may hold before logging stops
MaxLogLines == 2

----------------------------------------------------------------------------
(* Values of the AngelScript interface used by the code *)

asEXECUTION_FINISHED == 0
asEXECUTION_EXCEPTION == 3
asERROR == -1

asMSGTYPE_ERROR == "asMSGTYPE_ERROR"
asMSGTYPE_WARNING == "asMSGTYPE_WARNING"
asMSGTYPE_INFORMATION == "asMSGTYPE_INFORMATION"

asGC_FULL_CYCLE == "asGC_FULL_CYCLE"
asGC_ONE_STEP == "asGC_ONE_STEP"
asGC_DESTROY_GARBAGE == "asGC_DESTROY_GARBAGE"
asGC_DETECT_GARBAGE == "asGC_DETECT_GARBAGE"

LOGMODE_IMMEDIATE == "LOGMODE_IMMEDIATE"
LOGMODE_RETAINED == "LOGMODE_RETAINED"

\* mLogMode is not set by the constructor: until setLogMode is called it
\* holds whatever the memory held, possibly no enumerator at all
LogModeGarbage == "indeterminate"
LogModes == {LOGMODE_IMMEDIATE, LOGMODE_RETAINED}

ENGINE == 1
ContextIds == 1 .. (MAX_SCRIPT_NESTING_LEVEL + 1)
NoCall == <<>>

Call(name, arg) == [call |-> name, arg |-> arg]

----------------------------------------------------------------------------
(* Strings *)

DigitChars == <<"0", "1", "2", "3", "4", "5", "6", "7", "8", "9">>

RECURSIVE UnsignedToString(_)
UnsignedToString(n) ==
    IF n < 10 THEN <<DigitChars[n + 1]>>
    ELSE UnsignedToString(n \div 10) \o <<DigitChars[(n % 10) + 1]>>

\* toString(int)
toString(n) == IF n < 0 THEN <<"-">> \o UnsignedToString(-n) ELSE UnsignedToString(n)

\* the messages the engine can hand to the callback
Messages ==
    { [section |-> <<"g", "h">>, row |-> 12, col |-> 105,
       type |-> asMSGTYPE_ERROR, message |-> <<"e">>],
      [section |-> <<"f">>, row |-> 1, col |-> 2,
       type |-> asMSGTYPE_WARNING, message |-> <<"w">>],
      [section |-> <<"f">>, row |-> 1, col |-> 2,
       type |-> asMSGTYPE_INFORMATION, message |-> <<"i">>] }

ErrorMessages == {m \in Messages : m.type = asMSGTYPE_ERROR}

\* local variable message of logMessage
FormatMessage(msg) ==
    msg.section \o <<" ", "(">> \o toString(msg.row) \o <<",">> \o toString(msg.col)
        \o <<")", " ">> \o msg.message

\* mutant: info messages are retained too
RetainedAppendAll(buf, msg) == buf \o FormatMessage(msg) \o <<"\n">>

\* the retained-mode branch of logMessage
RetainedAppend(buf, msg) ==
    IF msg.type = asMSGTYPE_ERROR \/ msg.type = asMSGTYPE_WARNING
    THEN buf \o FormatMessage(msg) \o <<"\n">>
    ELSE buf

\* mLogMessages after logMessage(msg)
LogMessagesAfter(mode, buf, msg) ==
    IF mode = LOGMODE_IMMEDIATE THEN buf ELSE RetainedAppend(buf, msg)

\* the log sink calls logMessage(msg) makes
LogSinkCalls(mode, msg) ==
    IF mode = LOGMODE_IMMEDIATE
    THEN CASE msg.type = asMSGTYPE_ERROR -> <<Call("LOGERROR", FormatMessage(msg))>>
           [] msg.type = asMSGTYPE_WARNING -> <<Call("LOGWARNING", FormatMessage(msg))>>
           [] OTHER -> <<Call("LOGINFO", FormatMessage(msg))>>
    ELSE NoCall

\* messageCallback: the call of logMessage and the calls logMessage makes
LogMessageCalls(mode, msg) == <<Call("logMessage", msg)>> \o LogSinkCalls(mode, msg)

\* number of lines in the retained buffer
LineCount(buf) == Cardinality({i \in DOMAIN buf : buf[i] = "\n"})

----------------------------------------------------------------------------
(* Engine-side effects, read off the calls an operation made *)

CallCount(cs, name, arg) ==
    Cardinality({i \in DOMAIN cs : cs[i].call = name /\ cs[i].arg = arg})

Faulted(cs) == \E i \in DOMAIN cs : cs[i].call = "fault"

Fault == <<Call("fault", "null pointer dereference")>>

\* mScriptFileContexts[i] with i at or beyond the vector's size
OutOfRange == <<Call("fault", "index out of range")>>

NoOp == [name |-> "none", arg |-> <<>>, result |-> <<>>, pre |-> <<>>]

Op(name, arg, result, pre) == [name |-> name, arg |-> arg, result |-> result, pre |-> pre]

Init ==
    /\ lifecycle = "Uninitialized"
    /\ mAngelScriptEngine = 0
    /\ mImmediateContext = 0
    /\ mScriptFileContexts = <<>>
    /\ mLogMode = LogModeGarbage
    /\ mLogMessages = <<>>
    /\ prepared = [c \in ContextIds |-> 0]
    /\ released = [c \in ContextIds |-> 0]
    /\ engineReleased = 0
    /\ highestScriptNestingLevel = 0
    /\ createdContexts = {}
    /\ lastOp = NoOp
    /\ calls = NoCall

----------------------------------------------------------------------------
(* ScriptEngine::ScriptEngine *)

\* the context the k-th CreateContext call returns (k = 0 is the immediate
\* context's), null when the engine could not make one
CreateContext(k, failed) == IF k \in failed THEN 0 ELSE k + 1

\* mutant: the loop stops one slot short
CreatePoolShort(failed) ==
    [i \in 1 .. (MAX_SCRIPT_NESTING_LEVEL - 1) |-> CreateContext(i, failed)]

\* the pool the constructor's loop fills
CreatePool(failed) ==
    [i \in 1 .. MAX_SCRIPT_NESTING_LEVEL |-> CreateContext(i, failed)]

\* the calls the constructor makes once the engine exists
ConstructCalls(failed) ==
    <<Call("asCreateScriptEngine", ENGINE), Call("CreateContext", CreateContext(0, failed))>>
        \o [i \in 1 .. Len(CreatePool(failed)) |-> Call("CreateContext", CreatePool(failed)[i])]

Construct ==
    /\ lifecycle = "Uninitialized"
    /\ \E engineOk \in BOOLEAN :
         IF ~engineOk
         THEN \* EXCEPTION("Could not create AngelScript engine")
              /\ lifecycle' = "Failed"
              /\ calls' = <<Call("asCreateScriptEngine", 0)>>
              /\ lastOp' = Op("ScriptEngine", <<>>, "exception", <<>>)
              /\ UNCHANGED <<ctxVars, logVars>>
         ELSE \E failed \in SUBSET (0 .. MAX_SCRIPT_NESTING_LEVEL),
                 mode \in LogModes \cup {LogModeGarbage} :
              /\ lifecycle' = "Ready"
              /\ mAngelScriptEngine' = ENGINE
              /\ mImmediateContext' = CreateContext(0, failed)
              /\ mScriptFileContexts' = CreatePool(failed)
              /\ createdContexts' =
                     {ConstructCalls(failed)[i].arg : i \in 2 .. Len(ConstructCalls(failed))} \ {0}
              /\ mLogMode' = mode
              /\ mLogMessages' = <<>>
              /\ calls' = ConstructCalls(failed)
              /\ lastOp' = Op("ScriptEngine", <<>>, "returned", <<>>)
              /\ UNCHANGED <<prepared, released, engineReleased, highestScriptNestingLevel>>

----------------------------------------------------------------------------
(* ScriptEngine::~ScriptEngine *)

RECURSIVE PoolReleaseCalls(_, _)
\* the loop over the pool, from slot i (1-based) on
PoolReleaseCalls(pool, i) ==
    IF i > MAX_SCRIPT_NESTING_LEVEL THEN NoCall
    ELSE IF i > Len(pool) THEN OutOfRange
    ELSE (IF pool[i] # 0 THEN <<Call("Release", pool[i])>> ELSE NoCall)
             \o PoolReleaseCalls(pool, i + 1)

\* mutant: the immediate context is not released
DestructCallsLeakImmediate(imm, pool, engine) ==
    PoolReleaseCalls(pool, 1)
        \o (IF engine # 0 THEN <<Call("Engine.Release", engine)>> ELSE NoCall)

\* mutant: the engine handle is released before the contexts
DestructCallsEngineFirst(imm, pool, engine) ==
    (IF engine # 0 THEN <<Call("Engine.Release", engine)>> ELSE NoCall)
        \o (IF imm # 0 THEN <<Call("Release", imm)>> ELSE NoCall)
        \o PoolReleaseCalls(pool, 1)

\* mutant: the releases are not guarded against null
DestructCallsUnguarded(imm, pool, engine) ==
    <<Call("Release", imm)>>
        \o [i \in 1 .. Len(pool) |-> Call("Release", pool[i])]
        \o <<Call("Engine.Release", engine)>>

\* the calls the destructor makes
DestructCalls(imm, pool, engine) ==
    (IF imm # 0 THEN <<Call("Release", imm)>> ELSE NoCall)
        \o PoolReleaseCalls(pool, 1)
        \o (IF engine # 0 THEN <<Call("Engine.Release", engine)>> ELSE NoCall)

Destruct ==
    /\ lifecycle = "Ready"
    /\ calls' = DestructCalls(mImmediateContext, mScriptFileContexts, mAngelScriptEngine)
    /\ lifecycle' = IF Faulted(calls') THEN "Crashed" ELSE "ShutDown"
    /\ released' = [c \in ContextIds |-> released[c] + CallCount(calls', "Release", c)]
    /\ engineReleased' = engineReleased + CallCount(calls', "Engine.Release", ENGINE)
    /\ mImmediateContext' = 0
    /\ mScriptFileContexts' = <<>>
    /\ mAngelScriptEngine' = 0
    /\ lastOp' = Op("~ScriptEngine", <<>>, "returned",
                    [imm |-> mImmediateContext, pool |-> mScriptFileContexts,
                     engine |-> mAngelScriptEngine])
    /\ UNCHANGED <<prepared, highestScriptNestingLevel, createdContexts, logVars>>

----------------------------------------------------------------------------
(* ScriptEngine::execute *)

\* the statements handed to execute, by what the engine makes of them
Statements == {"syntax error", "compile error", "throws", "valid"}

\* id of the function CompileFunction makes of a statement that compiles
FunctionId(line) == IF line = "throws" THEN 1 ELSE 2

\* id of a function of a script file
ScriptFileFunction == 3

\* module->CompileFunction(...) < 0
CompileFails(line) == line \in {"syntax error", "compile error"}

\* what mImmediateContext->Execute() returns: the state the run ended in, or
\* a negative error code when the engine could not run the function at all
ExecuteReturns(line, engineError) ==
    IF engineError THEN asERROR
    ELSE IF line = "throws" THEN asEXECUTION_EXCEPTION
    ELSE asEXECUTION_FINISHED

\* mutant: a run that finished normally does not count as success
ExecuteSuccessStrict(r) == r > 0

\* success = mImmediateContext->Execute() >= 0
ExecuteSuccess(r) == r >= 0

\* mutant: the function is not released when Prepare fails
PrepareFailedCallsLeak(line) == <<Call("Prepare", asERROR)>>

\* the calls from Prepare on when Prepare(function->GetId()) < 0
PrepareFailedCalls(line) ==
    <<Call("Prepare", asERROR), Call("Function.Release", FunctionId(line))>>

\* the calls from Prepare on when Prepare succeeds and Execute returns r
ExecutedCalls(line, r) ==
    <<Call("Prepare", FunctionId(line)), Call("Execute", r),
      Call("Function.Release", FunctionId(line))>>

\* mutant: execute unprepares the immediate context before it returns
ImmediateFunctionOnReturnNone(line) == 0

\* the function the immediate context is prepared with when execute returns
\* after a successful Prepare: execute never calls Unprepare
ImmediateFunctionOnReturn(line) == FunctionId(line)

execute ==
    /\ lifecycle = "Ready"
    /\ \E line \in Statements, moduleOk \in BOOLEAN :
         LET pre == [line |-> line, prepared |-> prepared[1]]
             getModule == <<Call("GetModule", IF moduleOk THEN "module" ELSE "null")>>
         IN
         IF ~moduleOk
         THEN \* if (!module) return false
              /\ calls' = getModule
              /\ lastOp' = Op("execute", line, FALSE, pre)
              /\ UNCHANGED <<lifecycle, ctxVars, logVars>>
         ELSE IF CompileFails(line)
         THEN \* the engine reports the error through messageCallback; return false
              \E msg \in ErrorMessages :
              /\ LineCount(LogMessagesAfter(mLogMode, mLogMessages, msg)) <= MaxLogLines
              /\ mLogMessages' = LogMessagesAfter(mLogMode, mLogMessages, msg)
              /\ calls' = getModule \o <<Call("CompileFunction", asERROR)>>
                             \o LogMessageCalls(mLogMode, msg)
              /\ lastOp' = Op("execute", line, FALSE, pre)
              /\ UNCHANGED <<lifecycle, ctxVars, mLogMode>>
         ELSE IF mImmediateContext = 0
         THEN \* mImmediateContext->Prepare on a null pointer
              /\ lifecycle' = "Crashed"
              /\ calls' = getModule \o <<Call("CompileFunction", FunctionId(line))>> \o Fault
              /\ lastOp' = Op("execute", line, "fault", pre)
              /\ UNCHANGED <<ctxVars, logVars>>
         ELSE \E prepareOk \in BOOLEAN, engineError \in BOOLEAN, kept \in {0, prepared[mImmediateContext]} :
              LET compiled == getModule \o <<Call("CompileFunction", FunctionId(line))>>
                  r == ExecuteReturns(line, engineError)
              IN
              IF ~prepareOk
              THEN \* Prepare(...) < 0: function->Release(); return false
                   /\ calls' = compiled \o PrepareFailedCalls(line)
                   /\ prepared' = [prepared EXCEPT ![mImmediateContext] = kept]
                   /\ lastOp' = Op("execute", line, FALSE, pre)
                   /\ UNCHANGED <<lifecycle, mAngelScriptEngine, mImmediateContext,
                                  mScriptFileContexts, released, engineReleased,
                                  highestScriptNestingLevel, createdContexts, logVars>>
              ELSE /\ calls' = compiled \o ExecutedCalls(line, r)
                   /\ prepared' = [prepared EXCEPT ![mImmediateContext] =
                                                     ImmediateFunctionOnReturn(line)]
                   /\ lastOp' = Op("execute", line, ExecuteSuccess(r), pre)
                   /\ UNCHANGED <<lifecycle, mAngelScriptEngine, mImmediateContext,
                                  mScriptFileContexts, released, engineReleased,
                                  highestScriptNestingLevel, createdContexts, logVars>>

----------------------------------------------------------------------------
(* ScriptEngine::garbageCollect *)

\* unsigned highest = getHighestScriptNestingLevel()
getHighestScriptNestingLevel == highestScriptNestingLevel

RECURSIVE PoolUnprepareCalls(_, _, _)
\* for (unsigned i = 0; i < highest; ++i) mScriptFileContexts[i]->Unprepare(),
\* from slot i (0-based) on; the loop ends at the first null slot it dereferences
PoolUnprepareCalls(pool, i, highest) ==
    IF ~(i < highest) THEN NoCall
    ELSE IF i + 1 > Len(pool) THEN Fault
    ELSE IF pool[i + 1] = 0 THEN Fault
    ELSE <<Call("Unprepare", pool[i + 1])>> \o PoolUnprepareCalls(pool, i + 1, highest)

\* mutant: the loop stops one context short of the highest used
UnprepareCallsShort(imm, pool, highest) ==
    IF imm = 0 THEN Fault
    ELSE <<Call("Unprepare", imm)>> \o PoolUnprepareCalls(pool, 0, highest - 1)

\* the Unprepare calls of garbageCollect
UnprepareCalls(imm, pool, highest) ==
    IF imm = 0 THEN Fault
    ELSE <<Call("Unprepare", imm)>> \o PoolUnprepareCalls(pool, 0, highest)

\* mutant: the incremental pass destroys before anything is detected
CollectorCallsSwapped(fullCycle) ==
    IF fullCycle
    THEN <<Call("GarbageCollect", {asGC_FULL_CYCLE})>>
    ELSE <<Call("GarbageCollect", {asGC_FULL_CYCLE, asGC_DESTROY_GARBAGE}),
           Call("GarbageCollect", {asGC_ONE_STEP, asGC_DETECT_GARBAGE})>>

\* the collector calls of garbageCollect
CollectorCalls(fullCycle) ==
    IF fullCycle
    THEN <<Call("GarbageCollect", {asGC_FULL_CYCLE})>>
    ELSE <<Call("GarbageCollect", {asGC_ONE_STEP, asGC_DETECT_GARBAGE}),
           Call("GarbageCollect", {asGC_FULL_CYCLE, asGC_DESTROY_GARBAGE})>>

\* every call garbageCollect makes, in order
GarbageCollectCalls(imm, pool, highest, fullCycle) ==
    LET u == UnprepareCalls(imm, pool, highest)
    IN  IF Faulted(u) THEN u ELSE u \o CollectorCalls(fullCycle)

garbageCollect ==
    /\ lifecycle = "Ready"
    /\ \E fullCycle \in BOOLEAN :
         /\ calls' = GarbageCollectCalls(mImmediateContext, mScriptFileContexts,
                                         getHighestScriptNestingLevel, fullCycle)
         /\ lifecycle' = IF Faulted(calls') THEN "Crashed" ELSE "Ready"
         /\ prepared' = [c \in ContextIds |->
                            IF CallCount(calls', "Unprepare", c) > 0 THEN 0 ELSE prepared[c]]
         /\ lastOp' = Op("garbageCollect", fullCycle,
                         IF Faulted(calls') THEN "fault" ELSE "returned",
                         [prepared |-> {c \in ContextIds : prepared[c] # 0},
                          highest |-> getHighestScriptNestingLevel])
    /\ UNCHANGED <<mAngelScriptEngine, mImmediateContext, mScriptFileContexts, released,
                   engineReleased, highestScriptNestingLevel, createdContexts, logVars>>

----------------------------------------------------------------------------
(* Script files: the users of the per-level contexts *)

\* ScriptEngine::getScriptFileContext
ScriptFileContext(pool, nestingLevel) ==
    IF nestingLevel >= Len(pool) THEN 0 ELSE pool[nestingLevel + 1]

getScriptFileContext ==
    /\ lifecycle = "Ready"
    /\ \E nestingLevel \in 0 .. (MAX_SCRIPT_NESTING_LEVEL + 1) :
         lastOp' = Op("getScriptFileContext", nestingLevel,
                      ScriptFileContext(mScriptFileContexts, nestingLevel), <<>>)
    /\ calls' = NoCall
    /\ UNCHANGED <<lifecycle, ctxVars, logVars>>

\* A chain of script-to-script calls that reaches the given depth and has
\* returned: the script at nesting level i ran in the context
\* getScriptFileContext(i); the contexts of the levels in `kept` were left
\* prepared, the others were unprepared on return.
scriptFileExecute ==
    /\ lifecycle = "Ready"
    /\ \E depth \in 1 .. MAX_SCRIPT_NESTING_LEVEL :
         /\ \A i \in 0 .. (depth - 1) : ScriptFileContext(mScriptFileContexts, i) # 0
         /\ \E kept \in SUBSET (0 .. (depth - 1)) :
              /\ prepared' = [c \in ContextIds |->
                    IF \E i \in 0 .. (depth - 1) : ScriptFileContext(mScriptFileContexts, i) = c
                    THEN IF \E i \in kept : ScriptFileContext(mScriptFileContexts, i) = c
                         THEN ScriptFileFunction ELSE 0
                    ELSE prepared[c]]
              /\ lastOp' = Op("scriptFileExecute", depth, kept, <<>>)
         /\ highestScriptNestingLevel' =
                IF depth > highestScriptNestingLevel THEN depth ELSE highestScriptNestingLevel
    /\ calls' = NoCall
    /\ UNCHANGED <<lifecycle, mAngelScriptEngine, mImmediateContext, mScriptFileContexts,
                   released, engineReleased, createdContexts, logVars>>

----------------------------------------------------------------------------
(* The diagnostic sink *)

\* mutant: switching the mode drops the retained messages
setLogModeClears ==
    /\ lifecycle = "Ready"
    /\ \E mode \in LogModes :
         /\ mLogMode' = mode
         /\ lastOp' = Op("setLogMode", mode, <<>>, <<>>)
    /\ mLogMessages' = <<>>
    /\ calls' = NoCall
    /\ UNCHANGED <<lifecycle, ctxVars>>

setLogMode ==
    /\ lifecycle = "Ready"
    /\ \E mode \in LogModes :
         /\ mLogMode' = mode
         /\ lastOp' = Op("setLogMode", mode, <<>>, <<>>)
    /\ calls' = NoCall
    /\ UNCHANGED <<lifecycle, ctxVars, mLogMessages>>

\* mutant: the buffer is not emptied
clearLogMessagesKeeps ==
    /\ lifecycle = "Ready"
    /\ mLogMessages' = mLogMessages
    /\ lastOp' = Op("clearLogMessages", <<>>, <<>>, [dropped |-> Len(mLogMessages)])
    /\ calls' = NoCall
    /\ UNCHANGED <<lifecycle, ctxVars, mLogMode>>

clearLogMessages ==
    /\ lifecycle = "Ready"
    /\ mLogMessages' = <<>>
    /\ lastOp' = Op("clearLogMessages", <<>>, <<>>, [dropped |-> Len(mLogMessages)])
    /\ calls' = NoCall
    /\ UNCHANGED <<lifecycle, ctxVars, mLogMode>>

\* a message of the engine delivered through messageCallback
logMessage ==
    /\ lifecycle = "Ready"
    /\ \E msg \in Messages :
         /\ LineCount(LogMessagesAfter(mLogMode, mLogMessages, msg)) <= MaxLogLines
         /\ mLogMessages' = LogMessagesAfter(mLogMode, mLogMessages, msg)
         /\ calls' = LogMessageCalls(mLogMode, msg)
         /\ lastOp' = Op("logMessage", msg, <<>>,
                         [buffer |-> mLogMessages,
                          dropped |-> IF lastOp.name = "clearLogMessages"
                                      THEN lastOp.pre.dropped ELSE -1])
    /\ UNCHANGED <<lifecycle, ctxVars, mLogMode>>

----------------------------------------------------------------------------

Next ==
    \/ Construct
    \/ Destruct
    \/ execute
    \/ garbageCollect
    \/ getScriptFileContext
    \/ scriptFileExecute
    \/ setLogMode
    \/ clearLogMessages
    \/ logMessage

Spec == Init /\ [][Next]_vars

----------------------------------------------------------------------------
(* Helpers of the properties *)

\* positions in the last operation's calls of the calls of one name
CallsOf(name) == {i \in DOMAIN calls : calls[i].call = name}

\* positions in the last operation's calls of one call on one object
CallsOn(name, arg) == {i \in CallsOf(name) : calls[i].arg = arg}

\* the context the constructor put in pool slot `level` (0-based), 0 if
\* CreateContext returned null for it
ConstructedSlot(level) == IF (level + 2) \in createdContexts THEN level + 2 ELSE 0

RECURSIVE SplitLines(_)
\* the newline-terminated lines of a buffer, without their newlines
SplitLines(buf) ==
    IF buf = <<>> THEN <<>>
    ELSE LET ends == {i \in DOMAIN buf : buf[i] = "\n"}
             e == IF ends = {} THEN Len(buf) + 1
                  ELSE CHOOSE i \in ends : \A j \in ends : i <= j
         IN  <<SubSeq(buf, 1, e - 1)>> \o SplitLines(SubSeq(buf, e + 1, Len(buf)))

----------------------------------------------------------------------------
(* C1: execute returns false and a diagnostic reaches the sink when the    *)
(* statement fails to compile (invalid syntax or a compile error) and when *)
(* the compiled statement ends in a script exception.                      *)

C1_ExecuteFailureReported ==
    lastOp.name = "execute" =>
        /\ (\E i \in CallsOf("CompileFunction") : calls[i].arg < 0) =>
               (lastOp.result = FALSE /\ CallsOf("logMessage") # {})
        /\ CallsOn("Execute", asEXECUTION_EXCEPTION) # {} =>
               (lastOp.result = FALSE /\ CallsOf("logMessage") # {})

(* C2: getScriptFileContext(level) returns null for every level at or      *)
(* above MAX_SCRIPT_NESTING_LEVEL, and below it the non-null, unreleased   *)
(* context of that level, the same one each time.                          *)

C2_ScriptFileContextValid ==
    lastOp.name = "getScriptFileContext" =>
        IF lastOp.arg >= MAX_SCRIPT_NESTING_LEVEL
        THEN lastOp.result = 0
        ELSE /\ lastOp.result # 0
             /\ lastOp.result = lastOp.arg + 2
             /\ released[lastOp.result] = 0

(* C3: garbageCollect completes without fault and leaves the immediate     *)
(* context and every pooled context unprepared.                            *)

C3_GarbageCollectUnpreparesAll ==
    lastOp.name = "garbageCollect" =>
        /\ lastOp.result = "returned"
        /\ \A c \in ContextIds : prepared[c] = 0

(* C4: within garbageCollect every Unprepare call precedes the first       *)
(* collector call, and the Unprepare calls cover every context that was    *)
(* prepared, so the collector never runs while a context is prepared.      *)

C4_UnprepareBeforeCollect ==
    lastOp.name = "garbageCollect" =>
        \A g \in CallsOf("GarbageCollect") :
            /\ \A u \in CallsOf("Unprepare") : u < g
            /\ \A c \in lastOp.pre.prepared : \E u \in CallsOn("Unprepare", c) : u < g

C4_Witness ==
    /\ lastOp.name = "garbageCollect"
    /\ lastOp.result = "returned"
    /\ lastOp.pre.highest = MAX_SCRIPT_NESTING_LEVEL
    /\ lastOp.pre.prepared = ContextIds
    /\ Cardinality(CallsOf("GarbageCollect")) = 2

(* C5: in Retained mode, clearLogMessages followed by one error message    *)
(* leaves the buffer equal to "{section} ({row},{col}) {text}" and a       *)
(* newline, whatever the buffer held before the clear.                     *)

C5_ClearThenOneError ==
    ( /\ lastOp.name = "logMessage"
      /\ lastOp.pre.dropped >= 0
      /\ mLogMode = LOGMODE_RETAINED
      /\ lastOp.arg.type = asMSGTYPE_ERROR ) =>
        /\ mLogMessages = lastOp.arg.section \o <<" ", "(">> \o toString(lastOp.arg.row)
                              \o <<",">> \o toString(lastOp.arg.col) \o <<")", " ">>
                              \o lastOp.arg.message \o <<"\n">>
        /\ lastOp.arg.row = 12 /\ lastOp.arg.col = 105 =>
               mLogMessages = <<"g", "h", " ", "(", "1", "2", ",", "1", "0", "5", ")", " ", "e", "\n">>

C5_Witness ==
    /\ lastOp.name = "logMessage"
    /\ lastOp.pre.dropped > 0
    /\ mLogMode = LOGMODE_RETAINED
    /\ lastOp.arg.type = asMSGTYPE_ERROR
    /\ mLogMessages = <<"g", "h", " ", "(", "1", "2", ",", "1", "0", "5", ")", " ", "e", "\n">>

(* C6: the retained buffer never holds a line of an info message: it only  *)
(* changes by being emptied or by the line of the error or warning message *)
(* just delivered being appended, so its lines are those of error and      *)
(* warning messages in the order of their delivery.                        *)

RetainedLines ==
    {FormatMessage(m) : m \in {x \in Messages : x.type \in {asMSGTYPE_ERROR, asMSGTYPE_WARNING}}}

InfoLines == {FormatMessage(m) : m \in {x \in Messages : x.type = asMSGTYPE_INFORMATION}}

BufferHoldsNoInfoLine ==
    /\ \A i \in DOMAIN SplitLines(mLogMessages) :
           /\ SplitLines(mLogMessages)[i] \in RetainedLines
           /\ SplitLines(mLogMessages)[i] \notin InfoLines
    /\ mLogMessages # <<>> => mLogMessages[Len(mLogMessages)] = "\n"

BufferGrowsByDeliveredLine ==
    \/ mLogMessages' = mLogMessages
    \/ mLogMessages' = <<>>
    \/ \E i \in DOMAIN calls' :
          /\ calls'[i].call = "logMessage"
          /\ calls'[i].arg.type \in {asMSGTYPE_ERROR, asMSGTYPE_WARNING}
          /\ mLogMessages' = mLogMessages \o FormatMessage(calls'[i].arg) \o <<"\n">>

C6_NoInfoInRetainedBuffer == [] BufferHoldsNoInfoLine /\ [][BufferGrowsByDeliveredLine]_vars

C6_Witness ==
    /\ lastOp.name = "logMessage"
    /\ lastOp.arg.type = asMSGTYPE_INFORMATION
    /\ mLogMode = LOGMODE_RETAINED
    /\ Len(SplitLines(mLogMessages)) = 2
    /\ SplitLines(mLogMessages)[1] # SplitLines(mLogMessages)[2]

(* C7: construction either raises the fatal error or returns with a        *)
(* non-null engine handle, immediate context and pooled contexts.          *)

C7_ConstructionAllOrNothing ==
    lastOp.name = "ScriptEngine" =>
        \/ lastOp.result = "exception" /\ lifecycle = "Failed"
        \/ /\ lastOp.result = "returned"
           /\ mAngelScriptEngine # 0
           /\ mImmediateContext # 0
           /\ Len(mScriptFileContexts) = MAX_SCRIPT_NESTING_LEVEL
           /\ \A i \in DOMAIN mScriptFileContexts : mScriptFileContexts[i] # 0

(* C8: every context the constructor created is released exactly once by   *)
(* the destructor, and no context is released by anything else.            *)

C8_ContextsReleasedOnce ==
    /\ \A c \in ContextIds \ createdContexts : released[c] = 0
    /\ lifecycle = "ShutDown" =>
           /\ \A c \in createdContexts : released[c] = 1
           /\ \A c \in createdContexts : Cardinality(CallsOn("Release", c)) = 1
    /\ lifecycle # "ShutDown" =>
           /\ \A c \in ContextIds : released[c] = 0
           /\ CallsOf("Release") = {}

C8_Witness ==
    /\ lifecycle = "ShutDown"
    /\ createdContexts = ContextIds
    /\ \A c \in ContextIds : released[c] = 1
    /\ \E c \in ContextIds : prepared[c] # 0

(* C9: the engine handle outlives the contexts: it is created before any   *)
(* context is, it is released after every context has been released, and   *)
(* no context is unreleased in a state where the engine is released.       *)

C9_EngineOutlivesContexts ==
    /\ \A i \in CallsOf("CreateContext") :
           \E e \in CallsOn("asCreateScriptEngine", ENGINE) : e < i
    /\ \A e \in CallsOf("Engine.Release") :
           \A c \in createdContexts : \E r \in CallsOn("Release", c) : r < e
    /\ engineReleased <= 1
    /\ engineReleased > 0 => \A c \in createdContexts : released[c] > 0
    /\ createdContexts # {} => (mAngelScriptEngine # 0 \/ engineReleased > 0)

C9_Witness ==
    /\ lifecycle = "ShutDown"
    /\ engineReleased = 1
    /\ createdContexts = ContextIds
    /\ calls[Len(calls)] = Call("Engine.Release", ENGINE)
    /\ Len(calls) = MAX_SCRIPT_NESTING_LEVEL + 2

(* C10: from the end of construction until destruction the pool holds      *)
(* exactly MAX_SCRIPT_NESTING_LEVEL entries and each slot refers to the    *)
(* context the constructor put there.                                      *)

C10_PoolFixed ==
    lifecycle \in {"Ready", "Crashed"} =>
        /\ Len(mScriptFileContexts) = MAX_SCRIPT_NESTING_LEVEL
        /\ \A i \in DOMAIN mScriptFileContexts :
               mScriptFileContexts[i] = ConstructedSlot(i - 1)

C10_Witness ==
    /\ lifecycle = "Ready"
    /\ lastOp.name = "garbageCollect"
    /\ lastOp.pre.highest = MAX_SCRIPT_NESTING_LEVEL
    /\ Len(mScriptFileContexts) = MAX_SCRIPT_NESTING_LEVEL
    /\ mLogMessages # <<>>

(* C11: execute returns true for a valid statement whenever the module was *)
(* obtained, the function compiled, Prepare succeeded and Execute ran the  *)
(* function to its end.                                                    *)

C11_ValidStatementSucceeds ==
    ( /\ lastOp.name = "execute"
      /\ lastOp.arg = "valid"
      /\ CallsOn("GetModule", "module") # {}
      /\ \E i \in CallsOf("CompileFunction") : calls[i].arg >= 0
      /\ \E i \in CallsOf("Prepare") : calls[i].arg >= 0
      /\ CallsOn("Execute", asEXECUTION_FINISHED) # {} ) =>
        lastOp.result = TRUE

C11_Witness ==
    /\ lastOp.name = "execute"
    /\ lastOp.arg = "valid"
    /\ CallsOn("Execute", asEXECUTION_FINISHED) # {}
    /\ lastOp.result = TRUE
    /\ lastOp.pre.prepared # 0

(* C12: a garbageCollect(true) that reaches the collector makes exactly    *)
(* one collector call, a full cycle; a garbageCollect(false) makes exactly *)
(* two, first one step restricted to detecting garbage, then a full pass   *)
(* restricted to destroying it; the collector calls follow every Unprepare *)
(* call.                                                                   *)

\* the collector calls of the last operation, in order
CollectorCallsMade == SelectSeq(calls, LAMBDA c : c.call = "GarbageCollect")

C12_CollectorCallSequence ==
    (lastOp.name = "garbageCollect" /\ lastOp.result = "returned") =>
        /\ lastOp.arg = TRUE =>
               /\ Len(CollectorCallsMade) = 1
               /\ CollectorCallsMade[1].arg = {"asGC_FULL_CYCLE"}
        /\ lastOp.arg = FALSE =>
               /\ Len(CollectorCallsMade) = 2
               /\ CollectorCallsMade[1].arg = {"asGC_ONE_STEP", "asGC_DETECT_GARBAGE"}
               /\ CollectorCallsMade[2].arg = {"asGC_FULL_CYCLE", "asGC_DESTROY_GARBAGE"}
        /\ \A g \in CallsOf("GarbageCollect"), u \in CallsOf("Unprepare") : u < g
        /\ CallsOf("Unprepare") # {}

C12_Witness ==
    /\ lastOp.name = "garbageCollect"
    /\ lastOp.result = "returned"
    /\ lastOp.arg = FALSE
    /\ Len(CollectorCallsMade) = 2
    /\ Cardinality(CallsOf("Unprepare")) = MAX_SCRIPT_NESTING_LEVEL + 1

(* C13: the destructor is null-guarded: it never calls Release on a null   *)
(* immediate context, pooled context or engine handle, never reads a pool  *)
(* slot outside the pool, and leaves the immediate context and the engine  *)
(* handle null and the pool empty.                                         *)

C13_DestructorNullGuarded ==
    lastOp.name = "~ScriptEngine" =>
        /\ \A i \in CallsOf("Release") : calls[i].arg # 0
        /\ \A i \in CallsOf("Engine.Release") : calls[i].arg # 0
        /\ CallsOf("fault") = {}
        /\ Len(lastOp.pre.pool) = MAX_SCRIPT_NESTING_LEVEL
        /\ lifecycle = "ShutDown"
        /\ mImmediateContext = 0
        /\ mAngelScriptEngine = 0
        /\ mScriptFileContexts = <<>>

C13_Witness ==
    /\ lastOp.name = "~ScriptEngine"
    /\ lastOp.pre.imm = 0
    /\ \E i \in DOMAIN lastOp.pre.pool : lastOp.pre.pool[i] = 0
    /\ \E i \in DOMAIN lastOp.pre.pool : lastOp.pre.pool[i] # 0
    /\ CallsOf("Release") # {}
    /\ mScriptFileContexts = <<>>

(* C14: an execute call that returns has released the compiled function   *)
(* exactly once, after its last use, if compilation succeeded (whether     *)
(* Prepare failed, Execute failed or Execute succeeded), and has not       *)
(* released any function if the module was not obtained or compilation     *)
(* failed.                                                                 *)

C14_FunctionReleasedOnce ==
    (lastOp.name = "execute" /\ CallsOf("fault") = {}) =>
        IF \E i \in CallsOf("CompileFunction") : calls[i].arg >= 0
        THEN /\ Cardinality(CallsOf("Function.Release")) = 1
             /\ CallsOn("Function.Release", FunctionId(lastOp.arg)) = {Len(calls)}
             /\ CallsOf("Prepare") # {}
        ELSE CallsOf("Function.Release") = {}

C14_Witness ==
    /\ lastOp.name = "execute"
    /\ CallsOn("Prepare", asERROR) # {}
    /\ lastOp.result = FALSE
    /\ Cardinality(CallsOf("Function.Release")) = 1

(* C15: execute never unprepares the immediate context: when execute       *)
(* returns after a successful Prepare, whatever Execute returned, the      *)
(* immediate context is prepared with the statement's function although    *)
(* execute has released the function, and what the immediate context is    *)
(* prepared with changes only in a garbageCollect call or in an execute    *)
(* call that reaches Prepare.                                              *)

ImmediateStillPrepared ==
    (lastOp.name = "execute" /\ \E i \in CallsOf("Prepare") : calls[i].arg >= 0) =>
        /\ mImmediateContext # 0
        /\ prepared[mImmediateContext] = FunctionId(lastOp.arg)
        /\ CallsOn("Function.Release", FunctionId(lastOp.arg)) # {}
        /\ CallsOf("Unprepare") = {}

ImmediateChangesOnlyByCollectOrExecute ==
    prepared'[1] # prepared[1] =>
        \/ /\ lastOp'.name = "garbageCollect"
           /\ prepared'[1] = 0
           /\ \E i \in DOMAIN calls' : calls'[i] = Call("Unprepare", 1)
        \/ /\ lastOp'.name = "execute"
           /\ \E i \in DOMAIN calls' : calls'[i].call = "Prepare"

C15_ImmediateStaysPrepared ==
    [] ImmediateStillPrepared /\ [][ImmediateChangesOnlyByCollectOrExecute]_vars

C15_Witness ==
    /\ lastOp.name = "execute"
    /\ CallsOn("Execute", asERROR) # {}
    /\ lastOp.result = FALSE
    /\ prepared[mImmediateContext] = FunctionId(lastOp.arg)
    /\ lastOp.pre.prepared # 0
    /\ lastOp.pre.prepared # FunctionId(lastOp.arg)

(* C16: logMessage leaves the retained buffer unchanged in Immediate mode  *)
(* for every severity and in Retained mode for an info message; setLogMode *)
(* changes only the mode; clearLogMessages empties the buffer and leaves   *)
(* the mode; none of the three changes a context or the engine handle.     *)

DiagnosticFrame ==
    /\ (lastOp'.name = "logMessage" /\ mLogMode = LOGMODE_IMMEDIATE) =>
           (mLogMessages' = mLogMessages /\ mLogMode' = mLogMode)
    /\ (lastOp'.name = "logMessage" /\ mLogMode = LOGMODE_RETAINED
            /\ lastOp'.arg.type = asMSGTYPE_INFORMATION) =>
           (mLogMessages' = mLogMessages /\ mLogMode' = mLogMode)
    /\ lastOp'.name = "setLogMode" =>
           (mLogMessages' = mLogMessages /\ mLogMode' = lastOp'.arg)
    /\ lastOp'.name = "clearLogMessages" =>
           (mLogMessages' = <<>> /\ mLogMode' = mLogMode)
    /\ lastOp'.name \in {"logMessage", "setLogMode", "clearLogMessages"} =>
           /\ mAngelScriptEngine' = mAngelScriptEngine
           /\ mImmediateContext' = mImmediateContext
           /\ mScriptFileContexts' = mScriptFileContexts
           /\ prepared' = prepared
           /\ released' = released
           /\ engineReleased' = engineReleased
           /\ lifecycle' = lifecycle

C16_DiagnosticFrame == [][DiagnosticFrame]_vars

C16_Witness ==
    /\ lastOp.name = "setLogMode"
    /\ lastOp.arg = LOGMODE_IMMEDIATE
    /\ LineCount(mLogMessages) = 2
    /\ prepared[1] # 0

====
